---- MODULE Spec2Model ----
(***************************************************************************)
(* Model of aia/AIA_Response.py: the AIAEffectiveArea calibration store    *)
(* (effective_area, effective_area_ratio, _parse_series) and the           *)
(* standalone time_interpolate utility.                                    *)
(*                                                                         *)
(* Timestamps are integers (a DatetimeIndex entry is its position on the   *)
(* time line).  Values are exact rationals <<n, d>> with d > 0 in lowest   *)
(* terms; the float NaN is <<0, 0>> and +inf is <<1, 0>>.  A pandas Series *)
(* is a sequence of [t, v] records in row order.  What a call hands back   *)
(* is an outcome [kind, vals]: a scalar, a Series (several rows selected   *)
(* by .loc), or the exception that ended the call.                         *)
(***************************************************************************)
EXTENDS Integers, Sequences, FiniteSets

VARIABLES response_table, ts, last

vars == <<response_table, ts, last>>

(* ---------------------------- bounds ---------------------------------- *)
MaxTime == 3
MaxVal == 2
MaxRows == 2
MaxLen == 3

Wavelengths == {171, 193}
TableTimes == 1..MaxTime
EffAreas == 0..MaxVal
\* pd.to_datetime('2040-05-01 00:00:00.000'): later than every table row
FutureDate == MaxTime + 2
QueryTimes == 0..FutureDate

(* ---------------------------- rationals ------------------------------- *)
NaN == <<0, 0>>
Inf == <<1, 0>>

Abs(x) == IF x < 0 THEN -x ELSE x

RECURSIVE GCD(_, _)
GCD(a, c) == IF c = 0 THEN a ELSE GCD(c, a % c)

Rat(n, d) ==
  LET g == GCD(Abs(n), Abs(d))
      sg == IF d < 0 THEN -1 ELSE 1
  IN <<sg * (n \div g), sg * (d \div g)>>

IsNum(x) == x[2] > 0

RatAdd(x, y) == IF IsNum(x) /\ IsNum(y)
                THEN Rat(x[1] * y[2] + y[1] * x[2], x[2] * y[2]) ELSE NaN
RatSub(x, y) == IF IsNum(x) /\ IsNum(y)
                THEN Rat(x[1] * y[2] - y[1] * x[2], x[2] * y[2]) ELSE NaN
RatMul(x, y) == IF IsNum(x) /\ IsNum(y)
                THEN Rat(x[1] * y[1], x[2] * y[2]) ELSE NaN
\* numpy float division: x/0 is inf (0/0 and nan/y are nan), never an exception
RatDiv(x, y) ==
  IF ~(IsNum(x) /\ IsNum(y)) THEN NaN
  ELSE IF y[1] = 0 THEN (IF x[1] = 0 THEN NaN ELSE Inf)
  ELSE Rat(x[1] * y[2], x[2] * y[1])
RatLeq(x, y) == x[1] * y[2] <= y[1] * x[2]

(* ---------------------------- pandas helpers -------------------------- *)
Index(s) == [i \in 1..Len(s) |-> s[i].t]

RECURSIVE Insert(_, _)
Insert(sorted, e) ==
  IF sorted = <<>> THEN <<e>>
  ELSE IF e.t < Head(sorted).t THEN <<e>> \o sorted
  ELSE <<Head(sorted)>> \o Insert(Tail(sorted), e)

RECURSIVE SortIndex(_)
SortIndex(s) == IF s = <<>> THEN <<>>
                ELSE Insert(SortIndex(SubSeq(s, 1, Len(s) - 1)), s[Len(s)])

\* numpy argmax of a boolean array, 0-based: the first True, 0 when none is
Argmax(mask) ==
  IF \E i \in 1..Len(mask) : mask[i]
  THEN (CHOOSE i \in 1..Len(mask) : mask[i] /\ \A j \in 1..(i - 1) : ~mask[j]) - 1
  ELSE 0

\* Python slice s.iloc[lo:hi] with 0-based, possibly negative, bounds
Iloc(s, lo, hi) ==
  LET n == Len(s)
      clip(k) == IF k < 0 THEN (IF k + n < 0 THEN 0 ELSE k + n)
                 ELSE (IF k > n THEN n ELSE k)
  IN IF clip(lo) < clip(hi) THEN SubSeq(s, clip(lo) + 1, clip(hi)) ELSE <<>>

\* Series.reindex: one row per label, NaN where the label is new
Reindex(s, labels) ==
  [i \in 1..Len(labels) |->
     [t |-> labels[i],
      v |-> IF \E j \in 1..Len(s) : s[j].t = labels[i]
            THEN s[CHOOSE j \in 1..Len(s) : s[j].t = labels[i]].v
            ELSE NaN]]

\* series[label] for a label the index holds once
At(s, label) == s[CHOOSE j \in 1..Len(s) : s[j].t = label].v

MaxOf(S) == CHOOSE x \in S : \A y \in S : y <= x
MinOf(S) == CHOOSE x \in S : \A y \in S : x <= y
Range(f) == {f[i] : i \in DOMAIN f}

\* numpy.interp over points sorted by t: clamps outside [first, last]
NpInterp(x, pts) ==
  LET n == Len(pts)
  IN IF x < pts[1].t THEN pts[1].v
     ELSE IF x >= pts[n].t THEN pts[n].v
     ELSE LET j == MaxOf({k \in 1..n : pts[k].t <= x})
              slope == RatDiv(RatSub(pts[j + 1].v, pts[j].v),
                              Rat(pts[j + 1].t - pts[j].t, 1))
          IN RatAdd(RatMul(slope, Rat(x - pts[j].t, 1)), pts[j].v)

\* interpolate('time', limit_area='inside'): no row outside the valid rows is
\* filled
InterpolateInside(s) ==
  LET valid == {i \in 1..Len(s) : s[i].v # NaN}
      pts == SortIndex(SelectSeq(s, LAMBDA e : e.v # NaN))
  IN IF valid = {} THEN s
     ELSE [i \in 1..Len(s) |->
             IF i \in valid \/ i < MinOf(valid) \/ i > MaxOf(valid) THEN s[i]
             ELSE [t |-> s[i].t, v |-> NpInterp(s[i].t, pts)]]

\* Series.interpolate('time'): NaN rows after the first valid row are filled
\* from the valid rows by numpy.interp; NaN rows before it stay NaN
InterpolateTime(s) ==
  LET valid == {i \in 1..Len(s) : s[i].v # NaN}
      pts == SortIndex(SelectSeq(s, LAMBDA e : e.v # NaN))
  IN IF valid = {} THEN s
     ELSE [i \in 1..Len(s) |->
             IF i \in valid \/ i < MinOf(valid) THEN s[i]
             ELSE [t |-> s[i].t, v |-> NpInterp(s[i].t, pts)]]

Scalar(v) == [kind |-> "scalar", vals |-> <<v>>]
Raise(e) == [kind |-> e, vals |-> <<>>]
Returned(out) == out.kind \in {"scalar", "series"}

\* Series.loc[label]: the value when one row matches, a Series when several do
Loc(s, label) ==
  LET hit == SelectSeq(s, LAMBDA e : e.t = label)
  IN IF Len(hit) = 0 THEN Raise("KeyError")
     ELSE IF Len(hit) = 1 THEN Scalar(hit[1].v)
     ELSE [kind |-> "series", vals |-> [i \in 1..Len(hit) |-> hit[i].v]]

(* ---------------------------- time_interpolate ------------------------ *)
\* the slice taken of ts itself, sort_index() left out
BoundingPairUnsorted(series, target_time) ==
  LET b == Argmax([i \in 1..Len(series) |-> series[i].t > target_time])
  IN Iloc(series, b - 1, b + 1)

\* the two rows handed to the interpolation
BoundingPair(series, target_time) ==
  LET ts1 == SortIndex(series)
      b == Argmax([i \in 1..Len(ts1) |-> ts1[i].t > target_time])
  IN Iloc(ts1, b - 1, b + 1)

\* [out: what the call hands back, ts: the caller's series afterwards]
time_interpolate(series, target_time) ==
  IF Len(series) = 0
  THEN [out |-> Raise("ValueError"), ts |-> series]
  ELSE LET s == BoundingPair(series, target_time)
           s2 == Reindex(s, Index(s) \o <<target_time>>)
       IN [out |-> Loc(InterpolateTime(s2), target_time), ts |-> series]

(* ---------------------------- AIAEffectiveArea ------------------------ *)
\* response_table[response_table.WAVELNTH == wavelength].EFF_AREA
ChannelSeries(table, wavelength) ==
  LET rows == SelectSeq(table, LAMBDA r : r.WAVELNTH = wavelength)
  IN [i \in 1..Len(rows) |-> [t |-> rows[i].DATE, v |-> Rat(rows[i].EFF_AREA, 1)]]

\* an empty channel let through: the sentinel row alone, with nothing to hold
parse_series_no_lookup(table, wavelength) ==
  LET eff_area_series == ChannelSeries(table, wavelength)
      n == Len(eff_area_series)
      re == Reindex(eff_area_series, Index(eff_area_series) \o <<FutureDate>>)
  IN [err |-> "",
      series |-> IF n = 0 THEN re
                 ELSE [re EXCEPT ![n + 1].v =
                         At(eff_area_series, MaxOf(Range(Index(eff_area_series))))],
      table |-> table]

\* current_estimate read from the last row (eff_area_series.iloc[-1])
parse_series_last_row(table, wavelength) ==
  LET eff_area_series == ChannelSeries(table, wavelength)
  IN IF Len(eff_area_series) = 0
     THEN [err |-> "KeyError", series |-> <<>>, table |-> table]
     ELSE LET current_estimate == eff_area_series[Len(eff_area_series)].v
              re == Reindex(eff_area_series,
                            Index(eff_area_series) \o <<FutureDate>>)
          IN [err |-> "",
              series |-> [re EXCEPT ![Len(re)].v = current_estimate],
              table |-> table]

\* the sentinel row written into the store's own table
parse_series_in_place(table, wavelength) ==
  LET eff_area_series == ChannelSeries(table, wavelength)
  IN IF Len(eff_area_series) = 0
     THEN [err |-> "KeyError", series |-> <<>>, table |-> table]
     ELSE LET current_estimate ==
                At(eff_area_series, MaxOf(Range(Index(eff_area_series))))
              re == Reindex(eff_area_series,
                            Index(eff_area_series) \o <<FutureDate>>)
          IN [err |-> "",
              series |-> [re EXCEPT ![Len(re)].v = current_estimate],
              table |-> Append(table, [WAVELNTH |-> wavelength,
                                       DATE |-> FutureDate,
                                       EFF_AREA |-> current_estimate[1]])]

\* [err, series: the augmented series, table: the store's table afterwards]
parse_series(table, wavelength) ==
  LET eff_area_series == ChannelSeries(table, wavelength)
  IN IF Len(eff_area_series) = 0
     THEN [err |-> "KeyError", series |-> <<>>, table |-> table]
     ELSE LET current_estimate ==
                At(eff_area_series, MaxOf(Range(Index(eff_area_series))))
              re == Reindex(eff_area_series,
                            Index(eff_area_series) \o <<FutureDate>>)
          IN [err |-> "",
              series |-> [re EXCEPT ![Len(re)].v = current_estimate],
              table |-> table]

\* pd.to_datetime(time) - eff_area_series.index[0] < pd.Timedelta(0)
WarnBefore(eff_area_series, time) == time < eff_area_series[1].t

effective_area(table, wavelength, time) ==
  LET p == parse_series(table, wavelength)
  IN IF p.err # ""
     THEN [out |-> Raise(p.err), warned |-> FALSE, interpolated |-> FALSE,
           table |-> p.table]
     ELSE [out |-> time_interpolate(p.series, time).out,
           warned |-> WarnBefore(p.series, time), interpolated |-> TRUE,
           table |-> p.table]

effective_area_ratio(table, wavelength, time) ==
  LET p == parse_series(table, wavelength)
  IN IF p.err # ""
     THEN [out |-> Raise(p.err), warned |-> FALSE, interpolated |-> FALSE,
           table |-> p.table]
     ELSE LET launch_value == At(p.series, MinOf(Range(Index(p.series))))
              r == time_interpolate(p.series, time).out
          IN [out |-> [kind |-> r.kind,
                       vals |-> [i \in 1..Len(r.vals) |->
                                   RatDiv(r.vals[i], launch_value)]],
              warned |-> WarnBefore(p.series, time), interpolated |-> TRUE,
              table |-> p.table]

(* ---------------------------- state machine --------------------------- *)
Rows == [WAVELNTH : Wavelengths, DATE : TableTimes, EFF_AREA : EffAreas]

SeqsUpTo(S, n) == UNION {[1..k -> S] : k \in 0..n}

\* one row per (channel, timestamp): the table's index is unique per channel
UniqueRows(table) ==
  \A i, j \in 1..Len(table) :
     (table[i].WAVELNTH = table[j].WAVELNTH /\ table[i].DATE = table[j].DATE)
       => i = j

UniqueIndex(s) == \A i, j \in 1..Len(s) : s[i].t = s[j].t => i = j

Samples == [t : TableTimes, v : {Rat(a, 1) : a \in EffAreas}]

NoCall == [op |-> "none", wavelength |-> 0, time |-> 0, out |-> Raise(""),
           warned |-> FALSE, interpolated |-> FALSE]

\* a session holds either a loaded store or a series for the standalone utility
Init ==
  /\ last = NoCall
  /\ \/ /\ response_table \in {tb \in SeqsUpTo(Rows, MaxRows) : UniqueRows(tb)}
        /\ ts = <<>>
     \/ /\ response_table = <<>>
        /\ ts \in {s \in SeqsUpTo(Samples, MaxLen) : UniqueIndex(s)}

CallEffectiveArea ==
  /\ last = NoCall
  /\ \E w \in Wavelengths, time \in QueryTimes :
    \E r \in {effective_area(response_table, w, time)} :
       /\ response_table' = r.table
       /\ last' = [op |-> "effective_area", wavelength |-> w, time |-> time,
                   out |-> r.out, warned |-> r.warned,
                   interpolated |-> r.interpolated]
       /\ UNCHANGED ts

CallEffectiveAreaRatio ==
  /\ last = NoCall
  /\ \E w \in Wavelengths, time \in QueryTimes :
    \E r \in {effective_area_ratio(response_table, w, time)} :
       /\ response_table' = r.table
       /\ last' = [op |-> "effective_area_ratio", wavelength |-> w,
                   time |-> time, out |-> r.out, warned |-> r.warned,
                   interpolated |-> r.interpolated]
       /\ UNCHANGED ts

CallTimeInterpolate ==
  /\ last = NoCall
  /\ \E target_time \in QueryTimes :
    \E r \in {time_interpolate(ts, target_time)} :
       /\ ts' = r.ts
       /\ last' = [op |-> "time_interpolate", wavelength |-> 0,
                   time |-> target_time, out |-> r.out, warned |-> FALSE,
                   interpolated |-> TRUE]
       /\ UNCHANGED response_table

\* the caller takes the returned value (or catches the exception); the
\* transient series of the call are gone and the next call starts afresh
Return ==
  /\ last # NoCall
  /\ last' = NoCall
  /\ UNCHANGED <<response_table, ts>>

Next ==
  \/ CallEffectiveArea
  \/ CallEffectiveAreaRatio
  \/ CallTimeInterpolate
  \/ Return

Spec == Init /\ [][Next]_vars

(* ---------------------------- claim vocabulary ------------------------ *)
\* The chronology of a series, stated on its set of samples (no row order).
TimesOf(s) == {s[i].t : i \in 1..Len(s)}
ValueAt(s, t) == (CHOOSE e \in Range(s) : e.t = t).v
Earliest(s) == MinOf(TimesOf(s))
Latest(s) == MaxOf(TimesOf(s))
Before(s, t) == MaxOf({u \in TimesOf(s) : u < t})
After(s, t) == MinOf({u \in TimesOf(s) : u > t})
StrictlyInside(s, t) ==
  /\ t \notin TimesOf(s)
  /\ \E u \in TimesOf(s) : u < t
  /\ \E u \in TimesOf(s) : u > t

\* v0 + (v1 - v0) * (t - t0) / (t1 - t0) through the samples at t0 and t1
Line(s, t0, t1, t) ==
  RatAdd(ValueAt(s, t0),
         RatDiv(RatMul(RatSub(ValueAt(s, t1), ValueAt(s, t0)), Rat(t - t0, 1)),
                Rat(t1 - t0, 1)))

Permutations(s) ==
  {[i \in 1..Len(s) |-> s[p[i]]] :
     p \in {q \in [1..Len(s) -> 1..Len(s)] :
              \A i, j \in 1..Len(s) : q[i] = q[j] => i = j}}

\* the real samples of a channel, as the table holds them
RealSamples(table, w) ==
  {[t |-> table[i].DATE, v |-> Rat(table[i].EFF_AREA, 1)] :
     i \in {k \in 1..Len(table) : table[k].WAVELNTH = w}}
RealTimes(table, w) == {e.t : e \in RealSamples(table, w)}
RealValueAt(table, w, t) == (CHOOSE e \in RealSamples(table, w) : e.t = t).v

StoreCall == last.op \in {"effective_area", "effective_area_ratio"}
InterpCall == last.op = "time_interpolate"

(* ---------------------------- claims ---------------------------------- *)

\* C1 (as claimed): for a series of at least 2 samples and a target equal to
\* the timestamp of any of its samples, the first and the last included,
\* time_interpolate returns exactly that sample's value.
CexC1 ==
  (InterpCall /\ Len(ts) >= 2 /\ last.time \in TimesOf(ts))
    => last.out = Scalar(ValueAt(ts, last.time))

CexC3 ==
  (/\ last.op = "effective_area"
   /\ RealSamples(response_table, last.wavelength) # {}
   /\ last.time >= MaxOf(RealTimes(response_table, last.wavelength))
   /\ last.time < FutureDate)
    => last.out =
         Scalar(RealValueAt(response_table, last.wavelength,
                            MaxOf(RealTimes(response_table, last.wavelength))))

\* C4 (as claimed): for a channel with at least one real sample and a non-zero
\* reference value, effective_area_ratio at the chronologically earliest
\* timestamp of the channel equals 1.0 exactly.
CexC4 ==
  (/\ last.op = "effective_area_ratio"
   /\ RealSamples(response_table, last.wavelength) # {}
   /\ last.time = MinOf(RealTimes(response_table, last.wavelength))
   /\ RealValueAt(response_table, last.wavelength, last.time) # Rat(0, 1))
    => last.out = Scalar(Rat(1, 1))

\* C5: effective_area and effective_area_ratio with a wavelength that matches
\* no row of the table end in an error for every query time; no value is
\* returned and the error arises in _parse_series, before any interpolation.
ThmC5 ==
  (StoreCall /\ RealSamples(response_table, last.wavelength) = {})
    => /\ last.out = Raise("KeyError")
       /\ ~Returned(last.out)
       /\ ~last.interpolated
       /\ ~last.warned

\* C5's case: a loaded table with rows of another channel only.
WitC5 ==
  /\ StoreCall /\ response_table # <<>>
  /\ RealSamples(response_table, last.wavelength) = {}
  /\ last.out.kind = "KeyError"

\* C6 (as claimed): time_interpolate with fewer than 2 samples (one or none)
\* ends in an error for every target time; it never returns a value.
CexC6 == (InterpCall /\ Len(ts) < 2) => ~Returned(last.out)

\* C6 (amended): time_interpolate with no sample ends in an error for every
\* target time; with exactly one sample it does not fail: every value it
\* returns is that sample's value.
ThmC6 ==
  /\ (InterpCall /\ Len(ts) = 0) => last.out = Raise("ValueError")
  /\ (InterpCall /\ Len(ts) = 1)
       => /\ Returned(last.out)
          /\ \A i \in 1..Len(last.out.vals) : last.out.vals[i] = ts[1].v

\* C6's case: a one-sample series queried away from its only timestamp.
WitC6 ==
  /\ InterpCall /\ Len(ts) = 1 /\ last.time # ts[1].t
  /\ last.out = Scalar(ts[1].v)

\* C7 (as claimed): the 'before the beginning' warning is emitted exactly when
\* the query time precedes the chronologically earliest timestamp of the
\* channel's series, for every row order of the table.
CexC7 ==
  (StoreCall /\ RealSamples(response_table, last.wavelength) # {})
    => (last.warned <=>
          last.time < MinOf(RealTimes(response_table, last.wavelength)))

\* C8 (as claimed): for a series of at least 2 samples and a target strictly
\* before its chronologically first timestamp, time_interpolate (and
\* effective_area on the augmented series) returns a defined number: the
\* linear extrapolation through the two chronologically earliest samples.
CexC8 ==
  /\ (InterpCall /\ Len(ts) >= 2 /\ last.time < Earliest(ts))
       => /\ last.out.kind = "scalar"
          /\ IsNum(last.out.vals[1])
          /\ last.out.vals[1] =
               Line(ts, Earliest(ts), After(ts, Earliest(ts)), last.time)
  /\ (/\ last.op = "effective_area"
      /\ RealSamples(response_table, last.wavelength) # {}
      /\ last.time < MinOf(RealTimes(response_table, last.wavelength)))
       => /\ last.out.kind = "scalar"
          /\ IsNum(last.out.vals[1])

ThmC10 ==
  [][/\ response_table' = response_table
     /\ ts' = ts
     /\ last'.op = "effective_area"
          => effective_area(response_table', last'.wavelength, last'.time).out
               = last'.out
     /\ last'.op = "effective_area_ratio"
          => effective_area_ratio(response_table', last'.wavelength,
                                  last'.time).out = last'.out
     /\ last'.op = "time_interpolate"
          => time_interpolate(ts', last'.time).out = last'.out]_vars

\* C10's case: a warned store query answered from a table of several rows.
WitC10 ==
  /\ StoreCall /\ last.warned
  /\ last.out.kind = "series" /\ IsNum(last.out.vals[1])
  /\ Len(response_table) >= 2

====
